---------------------------- MODULE Spec2Model ----------------------------
(***************************************************************************)
(* A model of QuantumAwesomeness.py: the matching of qubits into disjoint  *)
(* pairs (getDisjointPairs), the probability/angle functions, the circuit  *)
(* that entangle builds from the gate history, the retry loop of           *)
(* getResults and the round loop of runGame.                               *)
(*                                                                         *)
(* Numbers.  The program computes with floats; the model computes with     *)
(* exact fixed-point integers:                                             *)
(*   - a probability is an integer numerator over PDen = 2*Shots, so that  *)
(*     a frequency c/shots is the even number 2c and the half-sum of two   *)
(*     frequencies is exact;                                               *)
(*   - a rotation fraction (a multiple of pi) is an integer numerator over *)
(*     FracDen = 12; calculateFrac rounds asin(sqrt(p))*2/pi to the        *)
(*     nearest twelfth (exact at p = 0, 1/4, 1/2, 3/4, 1).                 *)
(* Floating-point rounding of sums is not modelled.                        *)
(***************************************************************************)
EXTENDS Integers, Sequences, FiniteSets, TLC

(***************************************************************************)
(* Bounds of the model.                                                    *)
(***************************************************************************)
\* shots: the number of samples per backend run (a caller's argument)
Shots == 2
\* random.randint(0,100) is drawn from 0..MaxWeight
MaxWeight == 2
\* qubits of the layouts that getDisjointPairs is applied to on its own
MatchQubits == 4

PDen == 2 * Shots

Min(a, b) == IF a <= b THEN a ELSE b
Max(a, b) == IF a >= b THEN a ELSE b

RECURSIVE SumOver(_, _)
\* sum of f[x] for x in S
SumOver(f, S) ==
  IF S = {} THEN 0
  ELSE LET x == CHOOSE y \in S : TRUE IN f[x] + SumOver(f, S \ {x})

(***************************************************************************)
(* calculateFrac, calculateEntanglement, calculateFracDifference           *)
(***************************************************************************)
\* FracThreshold[k+1] = 10^6 * sin^2(pi*(2k+1)/48): a probability at or above
\* it has a fraction that rounds to more than k twelfths
FracThreshold ==
  << 4278, 38060, 103323, 195619, 308658, 434737,
     565263, 691342, 804381, 896677, 961940, 995722 >>

FracDen == Len(FracThreshold)

\* math.sqrt raises ValueError below 0, math.asin raises it above 1
FracDomain(p) == p >= 0 /\ p <= PDen

\* frac = asin(sqrt(oneProb)) * 2 / pi, in twelfths; p is a numerator over PDen
calculateFrac(p) ==
  Cardinality({k \in 1..FracDen : p * 1000000 >= FracThreshold[k] * PDen})

\* E = min(2 * calculateFrac(oneProb), 1), in twelfths
calculateEntanglement(p) == Min(2 * calculateFrac(p), FracDen)

\* calculateFracDifference without its second line
calculateFracDifferenceNoWrap(frac1, frac2) == Max(frac1, frac2) - Min(frac1, frac2)

\* delta = max - min; min(delta, 1 - delta)
calculateFracDifference(frac1, frac2) ==
  LET delta == Max(frac1, frac2) - Min(frac1, frac2)
  IN  Min(delta, FracDen - delta)


(***************************************************************************)
(* Layouts.  pairs maps a pair name to the two qubits it joins, as the     *)
(* tuple <<pairs[p][0], pairs[p][1]>> of 0-based qubit indices.            *)
(***************************************************************************)
\* the order in which a pairs dictionary lists its keys
NameOrder == << "A", "B", "C", "D", "E", "F", "fake1" >>

AllNames == {NameOrder[i] : i \in 1..Len(NameOrder)}

\* p[0:4] == 'fake'
IsFake(p) == p \in {"fake1"}

\* pairs.keys(), in order
KeysOf(pairs) == SelectSeq(NameOrder, LAMBDA n : n \in DOMAIN pairs)

Ends(pairs, p) == {pairs[p][1], pairs[p][2]}

(***************************************************************************)
(* mw.maxWeightMatching(edges, maxcardinality=True).  An edge is named by  *)
(* the pair it was made from.  The result is the list match, match[v] the  *)
(* vertex matched to v or -1, of one matching that has the greatest weight *)
(* among the matchings of greatest cardinality.                            *)
(***************************************************************************)
IsMatching(pairs, S) ==
  \A p \in S : \A q \in S : p # q => Ends(pairs, p) \cap Ends(pairs, q) = {}

Matchings(pairs) == {S \in SUBSET (DOMAIN pairs) : IsMatching(pairs, S)}

MaxCardinality(pairs) ==
  CHOOSE n \in 0..Cardinality(DOMAIN pairs) :
    /\ \E S \in Matchings(pairs) : Cardinality(S) = n
    /\ \A S \in Matchings(pairs) : Cardinality(S) <= n

OptimalMatchings(pairs, weight) ==
  LET best == {S \in Matchings(pairs) : Cardinality(S) = MaxCardinality(pairs)}
  IN  {S \in best : \A T \in best : SumOver(weight, T) <= SumOver(weight, S)}

\* nvertex = 1 + the greatest vertex of an edge (0 without edges)
VertexCount(pairs) ==
  LET V == UNION {Ends(pairs, p) : p \in DOMAIN pairs}
  IN  IF V = {} THEN 0 ELSE 1 + CHOOSE v \in V : \A u \in V : u <= v

\* the list mate of the matching S; TLA+ sequences start at 1, so match[v]
\* of the program is Mate(pairs, S)[v + 1]
Mate(pairs, S) ==
  [i \in 1..VertexCount(pairs) |->
     IF \E p \in S : (i - 1) \in Ends(pairs, p)
     THEN LET p == CHOOSE q \in S : (i - 1) \in Ends(pairs, q)
          IN  IF pairs[p][1] = i - 1 THEN pairs[p][2] ELSE pairs[p][1]
     ELSE -1]

maxWeightMatching(pairs, weight) ==
  {Mate(pairs, S) : S \in OptimalMatchings(pairs, weight)}

(***************************************************************************)
(* getDisjointPairs                                                        *)
(***************************************************************************)
\* weight[p] = random.randint(0,100)
RandomWeights(pairs) == [DOMAIN pairs -> 0..MaxWeight]

\* OneProbWeight with the difference not negated
OneProbWeightNotNegated(pairs, oneProb) ==
  [p \in DOMAIN pairs |->
     calculateFracDifference(calculateFrac(oneProb[pairs[p][1] + 1]),
                             calculateFrac(oneProb[pairs[p][2] + 1]))]

\* weight[p] = -calculateFracDifference(calculateFrac(oneProb[pairs[p][0]]),
\*                                      calculateFrac(oneProb[pairs[p][1]]))
OneProbWeight(pairs, oneProb) ==
  [p \in DOMAIN pairs |->
     0 - calculateFracDifference(calculateFrac(oneProb[pairs[p][1] + 1]),
                                 calculateFrac(oneProb[pairs[p][2] + 1]))]

\* "if oneProb:" an empty list is false
WeightsOf(pairs, oneProb) ==
  IF oneProb # << >> THEN {OneProbWeight(pairs, oneProb)} ELSE RandomWeights(pairs)

\* the weights raise: an index past the list, or calculateFrac out of its domain
WeightRaises(pairs, oneProb) ==
  /\ oneProb # << >>
  /\ \E p \in DOMAIN pairs : \E j \in 1..2 :
       \/ pairs[p][j] + 1 > Len(oneProb)
       \/ ~FracDomain(oneProb[pairs[p][j] + 1])

\* MatchedNames with the test of the matched vertex forgotten
MatchedNamesAnyPartner(pairs, match, v) ==
  SelectSeq(KeysOf(pairs), LAMBDA p : pairs[p][1] = v /\ ~IsFake(p))

\* MatchedNames with the fake pairs named too
MatchedNamesWithFakes(pairs, match, v) ==
  SelectSeq(KeysOf(pairs), LAMBDA p : pairs[p] = << v, match[v + 1] >>)

\* the names appended for vertex v: "if pairs[p]==[v,match[v]] and p[0:4]!='fake'"
MatchedNames(pairs, match, v) ==
  SelectSeq(KeysOf(pairs), LAMBDA p : pairs[p] = << v, match[v + 1] >> /\ ~IsFake(p))

RECURSIVE CollectFrom(_, _, _)
\* "for v in range(len(match)): for p in pairs.keys(): ..." from vertex v on
CollectFrom(pairs, match, v) ==
  IF v >= Len(match) THEN << >>
  ELSE MatchedNames(pairs, match, v) \o CollectFrom(pairs, match, v + 1)

matchingPairsOf(pairs, match) == CollectFrom(pairs, match, 0)

\* every list getDisjointPairs(pairs, oneProb) can return
getDisjointPairs(pairs, oneProb) ==
  {matchingPairsOf(pairs, m) :
     m \in UNION {maxWeightMatching(pairs, w) : w \in WeightsOf(pairs, oneProb)}}

(***************************************************************************)
(* Devices (getLayout of devices.py), backend answers and recorded games   *)
(***************************************************************************)
\* rounds a fresh game is asked to play: maxScore is drawn from -1..MaxRounds
MaxRounds == 2

\* a replay reads recorded data, so one round more is asked of it
ReplayMaxRounds == MaxRounds + 1

Devices == {"ibmqx", "acorn"}

\* num, pairs, pos.keys() and sdk of getLayout(device); qubit 3 of acorn is dead;
\* chain is a line of four qubits
Layout(d) ==
  IF d = "ibmqx"
  THEN [num |-> 3, pairs |-> [p \in {"A", "B"} |-> IF p = "A" THEN << 0, 1 >> ELSE << 1, 2 >>],
        pos |-> {0, 1, 2}, sdk |-> "QISKit"]
  ELSE IF d = "chain"
  THEN [num |-> 4,
        pairs |-> [p \in {"A", "B", "C"} |->
                     IF p = "A" THEN << 0, 1 >> ELSE IF p = "B" THEN << 1, 2 >> ELSE << 2, 3 >>],
        pos |-> {0, 1, 2, 3}, sdk |-> "QISKit"]
  ELSE [num |-> 4, pairs |-> [p \in {"A", "B"} |-> IF p = "A" THEN << 1, 0 >> ELSE << 1, 2 >>],
        pos |-> {0, 1, 2}, sdk |-> "Forest"]

Moves == {"C", "R", "B", "M"}

\* frac = random.random() / 2, in twelfths: a value of [0, 1/2)
PuzzleFracs == {1, 4}

\* [numpy.random.choice(['X','Z']), random.random()], the fraction in twelfths
ConjugateChoices(num) ==
  { [n \in 1..num |-> IF n % 2 = 1 THEN << "X", 3 >> ELSE << "Z", 7 >>],
    [n \in 1..num |-> IF n % 2 = 1 THEN << "Z", 10 >> ELSE << "X", 0 >>] }

\* the bit strings a backend answers with, over n measured qubits
SomeStrings(n) ==
  { [i \in 1..n |-> 0], [i \in 1..n |-> 1], [i \in 1..n |-> IF i <= 2 THEN 1 ELSE 0] }

\* executedJob.get_counts("script"): bit string -> count, the counts adding up to shots
QiskitCounts(n) ==
  {[s \in {a} |-> Shots] : a \in SomeStrings(n)}
    \cup {[s \in {ab[1], ab[2]} |-> IF s = ab[1] THEN 1 ELSE Shots - 1] :
            ab \in {x \in SomeStrings(n) \X SomeStrings(n) : x[1] # x[2]}}

\* engine.run_and_measure(script, qubits_active, trials=shots): one list of bits per shot
ForestSamples(n) == [1..Shots -> SomeStrings(n)]

Reverse(s) == [i \in 1..Len(s) |-> s[Len(s) + 1 - i]]

\* string[::-1] -> resultsVeryRaw[string]/shots
QiskitResultsRaw(counts) ==
  [s \in {Reverse(t) : t \in DOMAIN counts} |-> 2 * counts[Reverse(s)]]

\* the bit string of a sample: a "0" for each dead qubit
ForestBitString(sample, num, active) ==
  [i \in 1..num |->
     IF (i - 1) \in active
     THEN sample[i - Cardinality({q \in 0..(i - 2) : q \notin active})]
     ELSE 0]

\* resultsRaw[bitString] += 1/shots, for every sample
ForestResultsRaw(samples, num, active) ==
  LET str(k) == ForestBitString(samples[k], num, active)
  IN  [s \in {str(k) : k \in 1..Len(samples)} |->
         2 * Cardinality({k \in 1..Len(samples) : str(k) = s})]

\* every resultsRaw getResults can return on the device
ResultsRawOf(d) ==
  LET L == Layout(d)
  IN  IF L.sdk = "QISKit"
      THEN {QiskitResultsRaw(c) : c \in QiskitCounts(L.num)}
      ELSE {ForestResultsRaw(x, L.num, L.pos) : x \in ForestSamples(Cardinality(L.pos))}

\* one recorded round of a move='C' game: the puzzle, the guessed inverse, the oneProb
RecordedRound(p, frac, oneProb, pairs) ==
  << [q \in {p} |-> frac],
     [q \in {p} |-> 0 - calculateFrac((oneProb[pairs[p][1] + 1] + oneProb[pairs[p][2] + 1]) \div 2)],
     oneProb >>

\* the lines of results_<device>/gates_... and oneProbs_...: two recorded games,
\* the first of two rounds and the second of one
Corpus(d) ==
  LET L  == Layout(d)
      r1 == RecordedRound("A", 4, [i \in 1..L.num |-> IF i <= 2 THEN 2 ELSE 0], L.pairs)
      r2 == RecordedRound("B", 1, [i \in 1..L.num |-> IF i <= 3 THEN PDen ELSE 0], L.pairs)
  IN  << [gates |-> << r1[1], r1[2], r2[1], r2[2] >>, oneProbs |-> << r1[3], r2[3] >>],
         [gates |-> << r2[1], r2[2] >>, oneProbs |-> << r2[3] >>] >>

(***************************************************************************)
(* entangle: the circuit.  script is the list of the implementGate calls,  *)
(* each [gate, qubit, frac]; the SDK's own translation of a call is not    *)
(* modelled.                                                               *)
(***************************************************************************)
\* every order in which the elements of the set S can be listed
Orders(S) ==
  {o \in [1..Cardinality(S) -> S] : \A i, j \in 1..Cardinality(S) : o[i] = o[j] => i = j}

\* implementGate(device, conjugates[r][n][0], q[n], script, frac = sign*conjugates[r][n][1])
ConjugateGate(conj, n, sign) ==
  [gate |-> conj[n][1], qubit |-> << n - 1 >>, frac |-> sign * conj[n][2]]

\* "for n in range(num): implementGate(...)"
ConjugateOps(conj, num, sign) == [n \in 1..num |-> ConjugateGate(conj, n, sign)]

\* implementGate(device, "XX", [q[pairs[p][0]], q[pairs[p][1]]], script, frac = frac)
EntangleGate(pairs, p, frac) == [gate |-> "XX", qubit |-> pairs[p], frac |-> frac]

pairs_both(gates_create, gates_remove) == DOMAIN gates_create \cap DOMAIN gates_remove
pairs_create(gates_create, gates_remove) == DOMAIN gates_create \ DOMAIN gates_remove
pairs_remove(gates_create, gates_remove) == DOMAIN gates_remove \ DOMAIN gates_create

\* RoundGates with a pair of both records applied as two gates, not summed
RoundGatesNotSummed(gates, pairs, r) ==
  LET gates_create == gates[2 * r + 1]
      gates_remove == gates[2 * r + 2]
  IN  { [i \in 1..Len(c) |-> EntangleGate(pairs, c[i], gates_create[c[i]])]
          \o [i \in 1..Len(d) |-> EntangleGate(pairs, d[i], gates_remove[d[i]])] :
        c \in Orders(DOMAIN gates_create), d \in Orders(DOMAIN gates_remove) }

\* the XX gates of the past round r (0-based), the three loops in turn; a list
\* made from a set has no fixed order, so every order is a possible result
RoundGates(gates, pairs, r) ==
  LET gates_create == gates[2 * r + 1]
      gates_remove == gates[2 * r + 2]
  IN  { [i \in 1..Len(b) |-> EntangleGate(pairs, b[i], gates_create[b[i]] + gates_remove[b[i]])]
          \o [i \in 1..Len(c) |-> EntangleGate(pairs, c[i], gates_create[c[i]])]
          \o [i \in 1..Len(d) |-> EntangleGate(pairs, d[i], gates_remove[d[i]])] :
        b \in Orders(pairs_both(gates_create, gates_remove)),
        c \in Orders(pairs_create(gates_create, gates_remove)),
        d \in Orders(pairs_remove(gates_create, gates_remove)) }

\* PastRound with the two conjugations in the other order
PastRoundForwardFirst(gates, conjugates, num, pairs, r) ==
  { ConjugateOps(conjugates[r + 1], num, 1) \o g \o ConjugateOps(conjugates[r + 1], num, -1) :
      g \in RoundGates(gates, pairs, r) }

\* one pass of "for r in range(rounds-1)": inverse conjugation, gates, conjugation
PastRound(gates, conjugates, num, pairs, r) ==
  { ConjugateOps(conjugates[r + 1], num, -1) \o g \o ConjugateOps(conjugates[r + 1], num, 1) :
      g \in RoundGates(gates, pairs, r) }

RECURSIVE PastRounds(_, _, _, _, _, _)
\* the passes r, r+1, ..., rounds-2 of the loop
PastRounds(gates, conjugates, num, pairs, r, rounds) ==
  IF r >= rounds - 1 THEN {<< >>}
  ELSE { a \o b : a \in PastRound(gates, conjugates, num, pairs, r),
                  b \in PastRounds(gates, conjugates, num, pairs, r + 1, rounds) }

\* "for p in gates[2*r].keys()" of the current round r = rounds-1
CurrentRound(gates, pairs, rounds) ==
  LET g == gates[2 * (rounds - 1) + 1]
  IN  { [i \in 1..Len(o) |-> EntangleGate(pairs, o[i], g[o[i]])] : o \in Orders(DOMAIN g) }

\* rounds = int((len(gates)+1)/2)
RoundsOf(gates) == (Len(gates) + 1) \div 2

\* every script entangle can have built when it calls getResults
entangleScript(gates, conjugates, num, pairs) ==
  { a \o b : a \in PastRounds(gates, conjugates, num, pairs, 0, RoundsOf(gates)),
             b \in CurrentRound(gates, pairs, RoundsOf(gates)) }

\* implementGate(device, "finish", q, script)
FinishGate(num) == [gate |-> "finish", qubit |-> [n \in 1..num |-> n - 1], frac |-> 0]

(***************************************************************************)
(* entangle: from the backend's results to oneProb                         *)
(***************************************************************************)
\* "for shot in range(shots): results[strings[j]] += 1/shots", j drawn with the
\* probabilities resultsRaw: the frequencies of shots draws from its support
Resamples(resultsRaw) ==
  {r \in [DOMAIN resultsRaw -> {2 * c : c \in 0..Shots}] :
     /\ SumOver(r, DOMAIN r) = PDen
     /\ \A x \in DOMAIN r : resultsRaw[x] = 0 => r[x] = 0}

\* OneProbOf with the strings of a "0" at the qubit summed, not those of a "1"
OneProbOfZeros(results, num) ==
  [v \in 1..num |-> SumOver(results, {b \in DOMAIN results : b[v] = 0})]

RECURSIVE AddStrings(_, _, _)
\* "for bitString in strings: for v in range(num): if (bitString[v]=="1"):
\* oneProb[v] += results[bitString]", the strings left to visit being todo
AddStrings(oneProb, results, todo) ==
  IF todo = {} THEN oneProb
  ELSE LET bitString == CHOOSE b \in todo : TRUE
       IN  AddStrings([v \in 1..Len(oneProb) |->
                         IF bitString[v] = 1 THEN oneProb[v] + results[bitString]
                         ELSE oneProb[v]],
                      results, todo \ {bitString})

\* oneProb = [0]*num, then the loop over strings = list(resultsRaw.keys())
OneProbOf(results, num) == AddStrings([v \in 1..num |-> 0], results, DOMAIN results)

(***************************************************************************)
(* runGame: its helpers                                                    *)
(***************************************************************************)
SeqToSet(q) == {q[i] : i \in 1..Len(q)}

\* list(d.keys()) of a dictionary d
KeyList(d) == SelectSeq(NameOrder, LAMBDA n : n \in DOMAIN d)

\* fuzzAv += abs(oneProb[pairs[p][0]] - oneProb[pairs[p][1]]) / len(matchingPairs):
\* kept as the sum of the differences (over PDen) and the divisor
calculateFuzz(oneProb, pairs, matching) ==
  [sum |-> SumOver([i \in 1..Len(matching) |->
                      LET a == oneProb[pairs[matching[i]][1] + 1]
                          b == oneProb[pairs[matching[i]][2] + 1]
                      IN  IF a >= b THEN a - b ELSE b - a],
                   1..Len(matching)),
   n |-> Len(matching)]

\* "for j in range(2): guessedOneProb += oneProb[pairs[p][j]] / 2"
guessedOneProbOf(oneProb, pairs, p) ==
  (oneProb[pairs[p][1] + 1] + oneProb[pairs[p][2] + 1]) \div 2

\* guessedGatesOf with the fraction stored as it is, not negated
guessedGatesOfNotNegated(oneProb, pairs, guessed) ==
  [p \in SeqToSet(guessed) |-> calculateFrac(guessedOneProbOf(oneProb, pairs, p))]

\* guessedGates[p] = -calculateFrac(guessedOneProb), for p in guessedPairs
guessedGatesOf(oneProb, pairs, guessed) ==
  [p \in SeqToSet(guessed) |-> 0 - calculateFrac(guessedOneProbOf(oneProb, pairs, p))]

\* calculateFrac raises for one of the guessed pairs
GuessRaises(oneProb, pairs, guessed) ==
  \E p \in SeqToSet(guessed) : ~FracDomain(guessedOneProbOf(oneProb, pairs, p))

\* str.upper(pairGuess), on the inputs of the model
Upper(x) ==
  CASE x = "a" -> "A"
    [] x = "b" -> "B"
    [] x = "done" -> "DONE"
    [] x = "restart" -> "RESTART"
    [] x = "fake1" -> "FAKE1"
    [] OTHER -> x

\* what the player types at "Choose a pair"
PlayerInputs == {"A", "B", "b", "C", "done", "DONE", "restart", "x"}

\* "displayedOneProb[pairs[pairGuess][j]] = 2 for j in [0,1]": grey on screen
GreyOut(displayed, pairs, p) ==
  [i \in 1..Len(displayed) |-> IF (i - 1) \in Ends(pairs, p) THEN 2 * PDen ELSE displayed[i]]

\* "for n in pos.keys(): unpaired += (displayedOneProb[n] <= 1)"
Unpaired(displayed, pos) == Cardinality({n \in pos : displayed[n + 1] <= PDen})

(***************************************************************************)
(* CleanData and CalculateQuality.  A cleaning profile x has integer       *)
(* entries; fractionCorrect is kept as the sum of the samples' terms, in   *)
(* units of 1/QualityDen, with the number of samples it is divided by;     *)
(* closenessToIdeal is in units of 1/ClosenessDen, rounded.                *)
(***************************************************************************)
QualityDen == 3 * 4

ClosenessDen == 10 * 10 * 10

\* math.sqrt of v/ClosenessDen^2, in units of 1/ClosenessDen, rounded down
ISqrt(v) == CHOOSE k \in 0..(2 * ClosenessDen) : k * k <= v /\ (k + 1) * (k + 1) > v

\* oneProb[n] = max(0, min(1, x[2*n] * oneProb[n] + x[2*n+1]))
CleanData(x, oneProb) ==
  [n \in 1..Len(oneProb) |-> Max(0, Min(PDen, x[2 * n - 1] * oneProb[n] + x[2 * n] * PDen))]

\* oneProb of the sample at the round score, cleaned "if x!=[]"
SampleOneProb(x, sample, score) ==
  IF x # << >> THEN CleanData(x, sample.oneProbs[score]) ELSE sample.oneProbs[score]

\* the exception that the pass of the loop for the sample raises, "none" if it
\* raises none
SampleError(x, sample, pairs, score) ==
  IF score > Len(sample.oneProbs) THEN "IndexError"
  ELSE IF x # << >> /\ Len(x) < 2 * Len(sample.oneProbs[score]) THEN "IndexError"
  ELSE IF 2 * score - 1 > Len(sample.gates) THEN "IndexError"
  ELSE LET oneProb == SampleOneProb(x, sample, score)
           gate == sample.gates[2 * score - 1]
       IN  IF oneProb # << >> /\ \E p \in DOMAIN pairs : \E j \in 1..2 : pairs[p][j] + 1 > Len(oneProb)
           THEN "IndexError"
           ELSE IF WeightRaises(pairs, oneProb) THEN "ValueError"
           ELSE IF DOMAIN gate = {} THEN "ZeroDivisionError"
           ELSE IF \E p \in DOMAIN gate : \E j \in 1..2 : pairs[p][j] + 1 > Len(oneProb)
           THEN "IndexError"
           ELSE IF \E n \in 1..Len(oneProb) : ~FracDomain(oneProb[n]) THEN "ValueError"
           ELSE "none"

\* CorrectTerm with every guessed pair counted, correct or not
CorrectTermAllGuessed(guessedPairs, matchingPairs) ==
  (Cardinality(SeqToSet(guessedPairs)) * QualityDen) \div Len(matchingPairs)

\* len(correctGuesses) / len(matchingPairs)
CorrectTerm(guessedPairs, matchingPairs) ==
  (Cardinality(SeqToSet(guessedPairs) \cap SeqToSet(matchingPairs)) * QualityDen)
    \div Len(matchingPairs)

\* realFracs[pairs[p][0]] = gate[p]; realFracs[pairs[p][1]] = gate[p], the
\* later key of gate.keys() winning
RealFracs(gate, pairs, len) ==
  [q \in 1..len |->
     LET ps == SelectSeq(KeyList(gate), LAMBDA p : (q - 1) \in Ends(pairs, p))
     IN  IF ps = << >> THEN 0 ELSE gate[ps[Len(ps)]]]

\* sum over the qubits of (calculateFrac(prob)-realFrac)**2 / len(oneProb), in
\* units of 1/ClosenessDen^2
SquareTerm(oneProb, gate, pairs) ==
  LET realFracs == RealFracs(gate, pairs, Len(oneProb))
      d(q) == calculateFrac(oneProb[q]) - realFracs[q]
  IN  (SumOver([q \in 1..Len(oneProb) |-> d(q) * d(q)], 1..Len(oneProb))
         * ClosenessDen * ClosenessDen) \div (FracDen * FracDen * Len(oneProb))

\* the lists that getDisjointPairs can return in turn for the samples: one
\* list guessedPairs per pass of the loop
GuessesOf(x, samples, pairs, score) ==
  {g \in [1..Len(samples) -> UNION {getDisjointPairs(pairs, SampleOneProb(x, samples[s], score)) :
                                      s \in 1..Len(samples)}] :
     \A s \in 1..Len(samples) :
       g[s] \in getDisjointPairs(pairs, SampleOneProb(x, samples[s], score))}

\* [fractionCorrect, closenessToIdeal] when the passes of the loop guess guesses
QualityOf(x, samples, pairs, score, guesses) ==
  LET n == Len(samples)
      terms == [s \in 1..n |-> CorrectTerm(guesses[s], KeyList(samples[s].gates[2 * score - 1]))]
      squares == [s \in 1..n |->
                    SquareTerm(SampleOneProb(x, samples[s], score),
                               samples[s].gates[2 * score - 1], pairs)]
  IN  [fractionCorrect |-> [sum |-> SumOver(terms, 1..n), n |-> n],
       closenessToIdeal |-> ClosenessDen - ISqrt(SumOver(squares, 1..n) \div n),
       guessedPairs |-> guesses,
       terms |-> terms]

\* the exception CalculateQuality raises, "none" if it returns
QualityError(x, samples, pairs, score) ==
  IF \E s \in 1..Len(samples) : SampleError(x, samples[s], pairs, score) # "none"
  THEN LET s == CHOOSE t \in 1..Len(samples) :
                  /\ SampleError(x, samples[t], pairs, score) # "none"
                  /\ \A u \in 1..(t - 1) : SampleError(x, samples[u], pairs, score) = "none"
       IN  SampleError(x, samples[s], pairs, score)
  ELSE IF Len(samples) = 0 THEN "ZeroDivisionError"
  ELSE "none"

\* every [fractionCorrect, closenessToIdeal] that CalculateQuality can return
CalculateQuality(x, samples, pairs, score) ==
  {QualityOf(x, samples, pairs, score, g) : g \in GuessesOf(x, samples, pairs, score)}

(***************************************************************************)
(* Inputs of the analysis: layouts, samples (the lines of the files        *)
(* oneProbs_..., gates_... and totalFuzz_... of one game) and corpora      *)
(***************************************************************************)
\* samples of the corpora handed to CalculateQuality
MaxSamples == 2

\* five qubits: the matchings {A,C} and {A,D} share a pair
ForkLayout ==
  [p \in {"A", "C", "D"} |->
     IF p = "A" THEN << 0, 1 >> ELSE IF p = "C" THEN << 2, 3 >> ELSE << 2, 4 >>]

QualityLayouts == {Layout("ibmqx").pairs, ForkLayout}

\* the puzzles of a round on the layout, every gate of fraction 4/12
TruthRecords(pairs) ==
  {[p \in SeqToSet(mp) |-> 4] : mp \in getDisjointPairs(pairs, << >>)}

\* a game of one round as runGame with move C records it, the probabilities
\* of the qubits being 0 or 1/2
QualitySamples(pairs) ==
  {[oneProbs |-> << v >>,
    gates |-> << t, guessedGatesOf(v, pairs, KeyList(t)) >>,
    totalFuzz |-> << calculateFuzz(v, pairs, KeyList(t)) >>] :
     v \in [1..VertexCount(pairs) -> {0, 2}], t \in TruthRecords(pairs)}

\* the lists of at most k elements of S
SeqsUpTo(S, k) == UNION {[1..n -> S] : n \in 0..k}

\* x = [1,0]*num
IdentityProfile(n) == [i \in 1..(2 * n) |-> IF i % 2 = 1 THEN 1 ELSE 0]

\* a game of one round that runGame with move C records on the device: a
\* probability for each of the num qubits, 0 for a qubit that is not in pos
DeviceGames(d) ==
  LET L == Layout(d)
  IN  {[oneProbs |-> << v >>,
        gates |-> << t, guessedGatesOf(v, L.pairs, KeyList(t)) >>,
        totalFuzz |-> << calculateFuzz(v, L.pairs, KeyList(t)) >>] :
         v \in {w \in [1..L.num -> {0, 2}] : \A q \in 1..L.num : (q - 1) \notin L.pos => w[q] = 0},
         t \in TruthRecords(L.pairs)}

\* the game of two rounds that repeats the round of the game
TwoRounds(game) ==
  [oneProbs |-> game.oneProbs \o game.oneProbs,
   gates |-> game.gates \o game.gates,
   totalFuzz |-> game.totalFuzz \o game.totalFuzz]

\* the files results_<device>/..., a game for each line: no line, one game of
\* one round, or two games
DeviceCorpora(d) ==
  {<< >>}
    \cup {<< g >> : g \in DeviceGames(d)}
    \cup {<< g, h >> : g, h \in DeviceGames(d)}

\* games with the puzzle A and a quiet last qubit: the pair A is guessed when
\* its two qubits read 1/2, the pair B when only the first does
GuessedGame(d) ==
  CHOOSE g \in DeviceGames(d) :
    DOMAIN g.gates[1] = {"A"} /\ g.oneProbs[1] = [q \in 1..Layout(d).num |-> IF q <= 2 THEN 2 ELSE 0]

MissedGame(d) ==
  CHOOSE g \in DeviceGames(d) :
    DOMAIN g.gates[1] = {"A"} /\ g.oneProbs[1] = [q \in 1..Layout(d).num |-> IF q <= 1 THEN 2 ELSE 0]

\* a game with the puzzle B in which the pair A is guessed
MisledGame(d) ==
  CHOOSE g \in DeviceGames(d) :
    DOMAIN g.gates[1] = {"B"} /\ g.oneProbs[1] = [q \in 1..Layout(d).num |-> IF q <= 2 THEN 2 ELSE 0]

\* the files that CreateCleaningProfile reads: no line, one game of two rounds,
\* or two games of one round
ProfileCorpora(d) ==
  { << >>,
    << TwoRounds(GuessedGame(d)) >>,
    << MissedGame(d), MisledGame(d) >> }

(***************************************************************************)
(* Metropolis                                                              *)
(***************************************************************************)
\* steps: the steps of one repetition
Steps == 2
\* repetitions: the restarts from the best point
Repetitions == 2
\* delta: the greatest change of an entry of x in one step
Delta == 2

\* random.uniform(+delta,-delta): a value above -delta and below +delta
RandomDeltas == {Delta - 1, 1 - Delta}

\* [fractionCorrect, closenessToIdeal] of a result of CalculateQuality
QualityPair(q) ==
  [fractionCorrect |-> q.fractionCorrect, closenessToIdeal |-> q.closenessToIdeal]

\* 1*quality[0] + 2*quality[1], in units of 1/(QualityDen*ClosenessDen*samples)
Objective(q) ==
  q.fractionCorrect.sum * ClosenessDen + 2 * q.closenessToIdeal * QualityDen * q.fractionCorrect.n

\* diff = 1*(proposedQuality[0]-quality[0]) + 2*(proposedQuality[1]-quality[1])
Diff(proposedQuality, quality) == Objective(proposedQuality) - Objective(quality)

\* accept = ( random.random() < math.exp(diff/T) ): certain when diff >= 0,
\* possible (random.random() can be 0.0) and not certain when diff < 0
Accepts(diff) == IF diff >= 0 THEN {TRUE} ELSE BOOLEAN

\* quality[0]>bestQuality[0]
BetterThanBest(quality, bestQuality) ==
  quality.fractionCorrect.sum * bestQuality.fractionCorrect.n
    > bestQuality.fractionCorrect.sum * quality.fractionCorrect.n

\* x[n] += random_delta, n counted from 0
Moved(x, n, random_delta) == [x EXCEPT ![n + 1] = @ + random_delta]

(***************************************************************************)
(* ProcessData.  A statistic is kept exact: a mean as the sum of the values *)
(* and the number of them, a variance as n * (sum of squares) - (sum)^2     *)
(* over n^2, the values being numerators over a denominator named with them *)
(***************************************************************************)
\* the divisors of a fuzz (the pairs of a matching) all divide it
FuzzUnit == 3 * 4

\* totalFuzz[score] as a numerator over PDen * FuzzUnit
FuzzValue(fuzz) == fuzz.sum * (FuzzUnit \div fuzz.n)

\* "mean += calculateEntanglement(oneProb)/num" over the list of a round: the
\* sum, a numerator over FracDen * num
MeanEntanglement(roundOneProbs) ==
  SumOver([q \in 1..Len(roundOneProbs) |-> calculateEntanglement(roundOneProbs[q])],
          1..Len(roundOneProbs))

\* av[0][score] and av[1][score] of the values of the samples at a round
Statistic(values) ==
  LET n == Len(values)
      total == SumOver(values, 1..n)
      squares == SumOver([s \in 1..n |-> values[s] * values[s]], 1..n)
  IN  [mean |-> [sum |-> total, n |-> n],
       variance |-> [sum |-> n * squares - total * total, n |-> n * n]]

\* the exception ProcessData raises on the files of the device, "none" if it
\* returns
ProcessError(corpus, pairs) ==
  IF \E s \in 1..Len(corpus) : \E r \in 1..Len(corpus[s].oneProbs) :
       \E q \in 1..Len(corpus[s].oneProbs[r]) : ~FracDomain(corpus[s].oneProbs[r][q])
  THEN "ValueError"
  ELSE IF corpus = << >> THEN "IndexError"
  ELSE LET maxRounds == Len(corpus[1].totalFuzz)
       IN  IF \E s \in 1..Len(corpus) :
                Len(corpus[s].totalFuzz) < maxRounds \/ Len(corpus[s].oneProbs) < maxRounds
           THEN "IndexError"
           ELSE IF \E r \in 1..maxRounds : QualityError(<< >>, corpus, pairs, r) # "none"
           THEN QualityError(<< >>, corpus, pairs,
                             CHOOSE r \in 1..maxRounds :
                               /\ QualityError(<< >>, corpus, pairs, r) # "none"
                               /\ \A u \in 1..(r - 1) : QualityError(<< >>, corpus, pairs, u) = "none")
           ELSE "none"

\* every fuzzAv, entangleAv, quality that ProcessData can return
ProcessData(corpus, num, pairs) ==
  LET samples == Len(corpus)
      maxRounds == Len(corpus[1].totalFuzz)
      qualities(r) == {QualityPair(q) : q \in CalculateQuality(<< >>, corpus, pairs, r)}
  IN  {[fuzzAv |-> [r \in 1..maxRounds |->
                      Statistic([s \in 1..samples |-> FuzzValue(corpus[s].totalFuzz[r])])],
        entangleAv |-> [r \in 1..maxRounds |->
                          Statistic([s \in 1..samples |-> MeanEntanglement(corpus[s].oneProbs[r])])],
        entangleDen |-> FracDen * num,
        quality |-> quality] :
       quality \in {qs \in [1..maxRounds -> UNION {qualities(r) : r \in 1..maxRounds}] :
                       \A r \in 1..maxRounds : qs[r] \in qualities(r)}}

(***************************************************************************)
(* The state: the arguments and locals of one call of runGame, with the    *)
(* locals of entangle and getResults it is suspended in, and the arguments *)
(* and the result of one call of getDisjointPairs made on its own.         *)
(***************************************************************************)
VARIABLES
  device, move, sim, dataNeeded, maxScore,      \* arguments of runGame
  gates, conjugates, totalFuzz, oneProbs,       \* the four lists it returns
  originalOneProbs,
  score, gameOn, restart,
  matchingPairs, oneProb, displayedOneProb, guessedPairs, unpaired,
  script, resultsRaw, results,                  \* entangle
  failure,                                      \* getResults: why the last attempt failed
  pc,                                           \* where runGame is
  m_pairs, m_oneProb, m_weight, m_match, m_result, m_pc,  \* getDisjointPairs
  f_name, f_args, f_result, f_pc,               \* a function of the analysis called on its own
  k_score, k_cleaner,                           \* CreateCleaningProfile
  k_x, k_quality, k_best_x, k_bestQuality, k_rep, k_step   \* Metropolis

gameVars ==
  << device, move, sim, dataNeeded, maxScore, gates, conjugates, totalFuzz, oneProbs,
     originalOneProbs, score, gameOn, restart, matchingPairs, oneProb, displayedOneProb,
     guessedPairs, unpaired, script, resultsRaw, results, failure, pc >>

matchVars == << m_pairs, m_oneProb, m_weight, m_match, m_result, m_pc >>

callVars ==
  << f_name, f_args, f_result, f_pc, k_score, k_cleaner,
     k_x, k_quality, k_best_x, k_bestQuality, k_rep, k_step >>

vars == << gameVars, matchVars, callVars >>

num == Layout(device).num
pairs == Layout(device).pairs
pos == Layout(device).pos
sdk == Layout(device).sdk

\* no call of getDisjointPairs on its own
MatchIdle ==
  /\ m_pairs = << >>
  /\ m_oneProb = << >>
  /\ m_weight = << >>
  /\ m_match = << >>
  /\ m_result = << >>
  /\ m_pc = "idle"

\* no function of the analysis is called
CallIdle ==
  /\ f_name = "none"
  /\ f_args = << >>
  /\ f_result = << >>
  /\ f_pc = "idle"
  /\ k_score = 0
  /\ k_cleaner = << >>
  /\ k_x = << >>
  /\ k_quality = << >>
  /\ k_best_x = << >>
  /\ k_bestQuality = << >>
  /\ k_rep = 0
  /\ k_step = 0

\* runGame(device, move, shots, sim, maxScore, dataNeeded), about to start
Init ==
  /\ device \in Devices
  /\ move \in Moves
  /\ sim \in BOOLEAN
  /\ dataNeeded \in BOOLEAN
  /\ maxScore \in (IF dataNeeded THEN -1..MaxRounds ELSE 0..ReplayMaxRounds)
  /\ gates = << >>
  /\ conjugates = << >>
  /\ totalFuzz = << >>
  /\ oneProbs = << >>
  /\ originalOneProbs = << >>
  /\ score = 0
  /\ gameOn = TRUE
  /\ restart = FALSE
  /\ matchingPairs = << >>
  /\ oneProb = << >>
  /\ displayedOneProb = << >>
  /\ guessedPairs = << >>
  /\ unpaired = 0
  /\ script = << >>
  /\ resultsRaw = << >>
  /\ results = << >>
  /\ failure = "none"
  /\ pc = "call"
  /\ MatchIdle
  /\ CallIdle

\* lines 532-568: the empty lists; in a replay the recorded game is loaded
Begin ==
  /\ pc = "call"
  /\ IF dataNeeded
     THEN /\ UNCHANGED << gates, oneProbs, originalOneProbs, maxScore >>
     ELSE \E game \in 1..Len(Corpus(device)) :
            /\ maxScore' = IF maxScore = 0 THEN Len(Corpus(device)[1].oneProbs) ELSE maxScore
            /\ oneProbs' = Corpus(device)[game].oneProbs
            /\ originalOneProbs' = Corpus(device)[game].oneProbs
            /\ gates' = Corpus(device)[game].gates
  /\ gameOn' = TRUE
  /\ restart' = FALSE
  /\ score' = 0
  /\ pc' = "loop"
  /\ UNCHANGED << device, move, sim, dataNeeded, conjugates, totalFuzz, matchingPairs, oneProb,
                  displayedOneProb, guessedPairs, unpaired, script, resultsRaw, results, failure >>
  /\ UNCHANGED << matchVars, callVars >>

\* lines 569-596, fresh: score += 1, a new puzzle is appended to gates and
\* entangle builds the circuit of all gates so far, up to its call of getResults
NewPuzzle ==
  /\ pc = "loop"
  /\ dataNeeded
  /\ score' = score + 1
  /\ \E mp \in getDisjointPairs(pairs, << >>) :
       \E appliedGates \in [SeqToSet(mp) -> PuzzleFracs] :
         /\ matchingPairs' = mp
         /\ gates' = Append(gates, appliedGates)
  /\ script' \in entangleScript(gates', conjugates, num, pairs)
  /\ failure' = "none"
  /\ pc' = "getResults"
  /\ UNCHANGED << device, move, sim, dataNeeded, maxScore, conjugates, totalFuzz, oneProbs,
                  originalOneProbs, gameOn, restart, oneProb, displayedOneProb, guessedPairs,
                  unpaired, resultsRaw, results >>
  /\ UNCHANGED << matchVars, callVars >>

\* lines 569-571 and 598-601, replay: score += 1, the round is read from the lists;
\* an index past the end of a list raises IndexError
ReadPuzzle ==
  /\ pc = "loop"
  /\ ~dataNeeded
  /\ score' = score + 1
  /\ IF score + 1 > Len(oneProbs) \/ 2 * score + 1 > Len(gates)
     THEN /\ pc' = "raised"
          /\ UNCHANGED << oneProb, matchingPairs >>
     ELSE /\ oneProb' = oneProbs[score + 1]
          /\ matchingPairs' = KeyList(gates[2 * score + 1])
          /\ pc' = "guess"
  /\ UNCHANGED << device, move, sim, dataNeeded, maxScore, gates, conjugates, totalFuzz, oneProbs,
                  originalOneProbs, gameOn, restart, displayedOneProb, guessedPairs, unpaired,
                  script, resultsRaw, results, failure >>
  /\ UNCHANGED << matchVars, callVars >>

\* what getResults leaves alone
GetResultsFrame ==
  /\ UNCHANGED << device, move, sim, dataNeeded, maxScore, gates, conjugates, totalFuzz, oneProbs,
                  originalOneProbs, score, gameOn, restart, matchingPairs, oneProb,
                  displayedOneProb, guessedPairs, unpaired, script, results >>
  /\ UNCHANGED << matchVars, callVars >>

\* lines 194-198, 207-211 and 241-242, 247-260: the backend answers with data
BackendData ==
  /\ pc = "getResults"
  /\ resultsRaw' \in ResultsRawOf(device)
  /\ failure' = "none"
  /\ pc' = "measure"
  /\ GetResultsFrame

\* lines 197-202: the QISKit answer has a 'status' key: not data, sleep 300 s
BackendNotData ==
  /\ pc = "getResults"
  /\ sdk = "QISKit"
  /\ failure' = "status"
  /\ pc' = "sleep"
  /\ UNCHANGED resultsRaw
  /\ GetResultsFrame

\* lines 203-205 and 243-245: the backend call raises, whatever the exception
\* (a failed job, or an error of the configuration): "except:" sleeps
BackendRaises ==
  /\ pc = "getResults"
  /\ failure' \in {"transient", "configuration"}
  /\ pc' = "sleep"
  /\ UNCHANGED resultsRaw
  /\ GetResultsFrame

\* time.sleep(...) returns and "while noResults" tries again
Retry ==
  /\ pc = "sleep"
  /\ pc' = "getResults"
  /\ UNCHANGED << resultsRaw, failure >>
  /\ GetResultsFrame

\* lines 337-359: with sim the results are sampled anew, oneProb is summed,
\* the 'finish' gate is applied and entangle returns
Measure ==
  /\ pc = "measure"
  /\ results' \in (IF sim THEN Resamples(resultsRaw) ELSE {resultsRaw})
  /\ oneProb' = OneProbOf(results', num)
  /\ script' = Append(script, FinishGate(num))
  /\ pc' = "guess"
  /\ UNCHANGED << device, move, sim, dataNeeded, maxScore, gates, conjugates, totalFuzz, oneProbs,
                  originalOneProbs, score, gameOn, restart, matchingPairs, displayedOneProb,
                  guessedPairs, unpaired, resultsRaw, failure >>
  /\ UNCHANGED << matchVars, callVars >>

\* lines 609-627: entangle has returned (its locals are gone); the display copy
\* of oneProb and the guess of moves C, R and B; move M starts choosing,
\* "while (unpaired>1)"
Guess ==
  /\ pc = "guess"
  /\ displayedOneProb' = oneProb
  /\ CASE move = "C" ->
            /\ guessedPairs' = matchingPairs
            /\ pc' = "score"
            /\ UNCHANGED << unpaired, restart >>
       [] move = "R" ->
            /\ guessedPairs' \in getDisjointPairs(pairs, << >>)
            /\ pc' = "score"
            /\ UNCHANGED << unpaired, restart >>
       [] move = "B" ->
            IF WeightRaises(pairs, oneProb)
            THEN /\ pc' = "raised"
                 /\ guessedPairs' = << >>
                 /\ UNCHANGED << unpaired, restart >>
            ELSE /\ guessedPairs' \in getDisjointPairs(pairs, oneProb)
                 /\ pc' = "score"
                 /\ UNCHANGED << unpaired, restart >>
       [] move = "M" ->
            /\ guessedPairs' = << >>
            /\ unpaired' = num
            /\ restart' = FALSE
            /\ pc' = IF num > 1 THEN "choose" ELSE "score"
  /\ script' = << >>
  /\ resultsRaw' = << >>
  /\ results' = << >>
  /\ UNCHANGED << device, move, sim, dataNeeded, maxScore, gates, conjugates, totalFuzz, oneProbs,
                  originalOneProbs, score, gameOn, matchingPairs, oneProb, failure >>
  /\ UNCHANGED << matchVars, callVars >>

\* lines 628-659: one pass of "while (unpaired>1)": the player types pairGuess
Choose ==
  /\ pc = "choose"
  /\ \E typed \in PlayerInputs :
       LET pairGuess == IF num <= 26 THEN Upper(typed) ELSE typed
       IN  IF pairGuess \in DOMAIN pairs /\ pairGuess \notin SeqToSet(guessedPairs)
           THEN /\ guessedPairs' = Append(guessedPairs, pairGuess)
                /\ displayedOneProb' = GreyOut(displayedOneProb, pairs, pairGuess)
                /\ unpaired' = Unpaired(displayedOneProb', pos)
                /\ UNCHANGED restart
           ELSE IF Upper(pairGuess) = "DONE"
           THEN /\ unpaired' = 0
                /\ UNCHANGED << guessedPairs, displayedOneProb, restart >>
           ELSE IF Upper(pairGuess) = "RESTART"
           THEN /\ unpaired' = 0
                /\ restart' = TRUE
                /\ UNCHANGED << guessedPairs, displayedOneProb >>
           ELSE UNCHANGED << guessedPairs, displayedOneProb, unpaired, restart >>
  /\ pc' = IF unpaired' > 1 THEN "choose" ELSE "score"
  /\ UNCHANGED << device, move, sim, dataNeeded, maxScore, gates, conjugates, totalFuzz, oneProbs,
                  originalOneProbs, score, gameOn, matchingPairs, oneProb, script, resultsRaw,
                  results, failure >>
  /\ UNCHANGED << matchVars, callVars >>

\* Score with the lists of the round begun anew, not appended to
ScoreKeepsLast ==
  /\ pc = "score"
  /\ totalFuzz' = << calculateFuzz(oneProb, pairs, matchingPairs) >>
  /\ oneProbs' = << oneProb >>
  /\ gameOn' = ((score < maxScore) /\ (restart = FALSE))
  /\ pc' = "deduce"
  /\ UNCHANGED << device, move, sim, dataNeeded, maxScore, gates, conjugates, originalOneProbs,
                  score, restart, matchingPairs, oneProb, displayedOneProb, guessedPairs,
                  unpaired, script, resultsRaw, results, failure >>
  /\ UNCHANGED << matchVars, callVars >>

\* lines 662-668: the fuzz and the oneProb of the round are stored, gameOn is decided
Score ==
  /\ pc = "score"
  /\ totalFuzz' = Append(totalFuzz, calculateFuzz(oneProb, pairs, matchingPairs))
  /\ oneProbs' = Append(oneProbs, oneProb)
  /\ gameOn' = ((score < maxScore) /\ (restart = FALSE))
  /\ pc' = "deduce"
  /\ UNCHANGED << device, move, sim, dataNeeded, maxScore, gates, conjugates, originalOneProbs,
                  score, restart, matchingPairs, oneProb, displayedOneProb, guessedPairs,
                  unpaired, script, resultsRaw, results, failure >>
  /\ UNCHANGED << matchVars, callVars >>

\* lines 670-685: the gates of the guess are deduced from oneProb and appended
Deduce ==
  /\ pc = "deduce"
  /\ IF GuessRaises(oneProb, pairs, guessedPairs)
     THEN /\ pc' = "raised"
          /\ UNCHANGED gates
     ELSE /\ gates' = Append(gates, guessedGatesOf(oneProb, pairs, guessedPairs))
          /\ pc' = "conjugate"
  /\ UNCHANGED << device, move, sim, dataNeeded, maxScore, conjugates, totalFuzz, oneProbs,
                  originalOneProbs, score, gameOn, restart, matchingPairs, oneProb,
                  displayedOneProb, guessedPairs, unpaired, script, resultsRaw, results, failure >>
  /\ UNCHANGED << matchVars, callVars >>

\* lines 687-691: a random rotation of every qubit is appended to conjugates
Conjugate ==
  /\ pc = "conjugate"
  /\ \E newconjugates \in ConjugateChoices(num) :
       conjugates' = Append(conjugates, newconjugates)
  /\ pc' = "endRound"
  /\ UNCHANGED << device, move, sim, dataNeeded, maxScore, gates, totalFuzz, oneProbs,
                  originalOneProbs, score, gameOn, restart, matchingPairs, oneProb,
                  displayedOneProb, guessedPairs, unpaired, script, resultsRaw, results, failure >>
  /\ UNCHANGED << matchVars, callVars >>

\* lines 693-716 and 569: the round is printed (the bot's guess is computed for
\* it whatever the move), "while gameOn" is tested and, when it is false,
\* runGame returns gates, conjugates, totalFuzz, oneProbs
EndRound ==
  /\ pc = "endRound"
  /\ pc' = IF WeightRaises(pairs, oneProb) THEN "raised"
           ELSE IF gameOn THEN "loop" ELSE "done"
  /\ UNCHANGED << device, move, sim, dataNeeded, maxScore, gates, conjugates, totalFuzz, oneProbs,
                  originalOneProbs, score, gameOn, restart, matchingPairs, oneProb,
                  displayedOneProb, guessedPairs, unpaired, script, resultsRaw, results, failure >>
  /\ UNCHANGED << matchVars, callVars >>

Next ==
  \/ Begin
  \/ NewPuzzle
  \/ ReadPuzzle
  \/ BackendData
  \/ BackendNotData
  \/ BackendRaises
  \/ Retry
  \/ Measure
  \/ Guess
  \/ Choose
  \/ Score
  \/ Deduce
  \/ Conjugate
  \/ EndRound

Spec == Init /\ [][Next]_vars

\* the program keeps running: a step that can be taken is taken in the end
FairSpec == Spec /\ WF_vars(Next)

\* runGame(device, 'M', shots, sim, maxScore, dataNeeded) on the line of four
\* qubits, for at most one round, about to start
InitManual ==
  /\ device = "chain"
  /\ move = "M"
  /\ sim \in BOOLEAN
  /\ dataNeeded \in BOOLEAN
  /\ maxScore \in 0..1
  /\ gates = << >>
  /\ conjugates = << >>
  /\ totalFuzz = << >>
  /\ oneProbs = << >>
  /\ originalOneProbs = << >>
  /\ score = 0
  /\ gameOn = TRUE
  /\ restart = FALSE
  /\ matchingPairs = << >>
  /\ oneProb = << >>
  /\ displayedOneProb = << >>
  /\ guessedPairs = << >>
  /\ unpaired = 0
  /\ script = << >>
  /\ resultsRaw = << >>
  /\ results = << >>
  /\ failure = "none"
  /\ pc = "call"
  /\ MatchIdle
  /\ CallIdle

SpecManual == InitManual /\ [][Next]_vars

(***************************************************************************)
(* getDisjointPairs called on its own, on the layouts of MatchLayouts      *)
(***************************************************************************)
Couples(n) == {c \in (0..(n - 1)) \X (0..(n - 1)) : c[1] # c[2]}

SortedCouples(n) == {c \in Couples(n) : c[1] < c[2]}

\* the layouts of at most three pairs, one of them fake: "A" joins two qubits
\* in either order
SmallLayouts ==
  UNION { UNION { { [p \in (IF a = << >> THEN {} ELSE {"A"})
                          \cup (IF b = << >> THEN {} ELSE {"B"})
                          \cup (IF f = << >> THEN {} ELSE {"fake1"}) |->
                       IF p = "A" THEN a ELSE IF p = "B" THEN b ELSE f] :
                    f \in SortedCouples(MatchQubits) \cup {<< >>} } :
                  b \in SortedCouples(MatchQubits) \cup {<< >>} } :
          a \in Couples(MatchQubits) \cup {<< >>} }

\* the k-th couple of qubits of 0..3, k in 1..6
CoupleAt(k) == << << 0, 1 >>, << 2, 3 >>, << 0, 2 >>, << 1, 3 >>, << 0, 3 >>, << 1, 2 >> >>[k]

\* full connectivity on the even number k of qubits, no fake pair
CompleteLayout(k) ==
  [p \in {NameOrder[i] : i \in 1..((k * (k - 1)) \div 2)} |->
     CoupleAt(CHOOSE i \in 1..6 : NameOrder[i] = p)]

MatchLayouts == SmallLayouts \cup {CompleteLayout(2), CompleteLayout(4)}

\* the oneProb lists handed to getDisjointPairs: none, or a probability per qubit
MatchOneProbs == {<< >>} \cup [1..MatchQubits -> {0, 1, 2, PDen}]

InitMatch ==
  /\ device = "ibmqx"
  /\ move = "C"
  /\ sim = FALSE
  /\ dataNeeded = TRUE
  /\ maxScore = 0
  /\ gates = << >>
  /\ conjugates = << >>
  /\ totalFuzz = << >>
  /\ oneProbs = << >>
  /\ originalOneProbs = << >>
  /\ score = 0
  /\ gameOn = TRUE
  /\ restart = FALSE
  /\ matchingPairs = << >>
  /\ oneProb = << >>
  /\ displayedOneProb = << >>
  /\ guessedPairs = << >>
  /\ unpaired = 0
  /\ script = << >>
  /\ resultsRaw = << >>
  /\ results = << >>
  /\ failure = "none"
  /\ pc = "idle"
  /\ m_pairs \in MatchLayouts
  /\ m_oneProb \in MatchOneProbs
  /\ m_weight = << >>
  /\ m_match = << >>
  /\ m_result = << >>
  /\ m_pc = "call"
  /\ CallIdle

\* lines 487-509: the weights, the matching and the names of its pairs
CallGetDisjointPairs ==
  /\ m_pc = "call"
  /\ IF WeightRaises(m_pairs, m_oneProb)
     THEN /\ m_pc' = "raised"
          /\ UNCHANGED << m_weight, m_match, m_result >>
     ELSE /\ m_weight' \in WeightsOf(m_pairs, m_oneProb)
          /\ m_match' \in maxWeightMatching(m_pairs, m_weight')
          /\ m_result' = matchingPairsOf(m_pairs, m_match')
          /\ m_pc' = "returned"
  /\ UNCHANGED << m_pairs, m_oneProb >>
  /\ UNCHANGED << gameVars, callVars >>

NextMatch == CallGetDisjointPairs

SpecMatch == InitMatch /\ [][NextMatch]_vars

(***************************************************************************)
(* The end of entangle on its own: getResults has returned resultsRaw, any *)
(* mapping of at most MaxKeys bit strings to probabilities adding up to 1  *)
(***************************************************************************)
\* keys of the mappings handed to the end of entangle
MaxKeys == 3

BitStrings(n) == [1..n -> {0, 1}]

BackendMappings(n) ==
  UNION { {r \in [K -> 0..PDen] : SumOver(r, K) = PDen} :
          K \in {J \in SUBSET BitStrings(n) : Cardinality(J) >= 1 /\ Cardinality(J) <= MaxKeys} }

\* round 1 of a fresh game, entangle at line 337
InitMeasure ==
  /\ device \in Devices
  /\ move = "C"
  /\ sim \in BOOLEAN
  /\ dataNeeded = TRUE
  /\ maxScore = 1
  /\ gates = << [p \in {"A"} |-> 1] >>
  /\ conjugates = << >>
  /\ totalFuzz = << >>
  /\ oneProbs = << >>
  /\ originalOneProbs = << >>
  /\ score = 1
  /\ gameOn = TRUE
  /\ restart = FALSE
  /\ matchingPairs = << "A" >>
  /\ oneProb = << >>
  /\ displayedOneProb = << >>
  /\ guessedPairs = << >>
  /\ unpaired = 0
  /\ script = << EntangleGate(pairs, "A", 1) >>
  /\ resultsRaw \in BackendMappings(num)
  /\ results = << >>
  /\ failure = "none"
  /\ pc = "measure"
  /\ MatchIdle
  /\ CallIdle

NextMeasure == Measure

SpecMeasure == InitMeasure /\ [][NextMeasure]_vars

(***************************************************************************)
(* The functions of the analysis called on a corpus                        *)
(***************************************************************************)
\* no game is played
GameIdle ==
  /\ device = "ibmqx"
  /\ move = "C"
  /\ sim = FALSE
  /\ dataNeeded = TRUE
  /\ maxScore = 0
  /\ gates = << >>
  /\ conjugates = << >>
  /\ totalFuzz = << >>
  /\ oneProbs = << >>
  /\ originalOneProbs = << >>
  /\ score = 0
  /\ gameOn = TRUE
  /\ restart = FALSE
  /\ matchingPairs = << >>
  /\ oneProb = << >>
  /\ displayedOneProb = << >>
  /\ guessedPairs = << >>
  /\ unpaired = 0
  /\ script = << >>
  /\ resultsRaw = << >>
  /\ results = << >>
  /\ failure = "none"
  /\ pc = "idle"

\* the Metropolis search is not running
MetropolisIdle ==
  /\ k_score = 0
  /\ k_cleaner = << >>
  /\ k_x = << >>
  /\ k_quality = << >>
  /\ k_best_x = << >>
  /\ k_bestQuality = << >>
  /\ k_rep = 0
  /\ k_step = 0

\* CalculateQuality(x, oneProbSamples, gateSamples, pairs, score)
QualityCalls ==
  UNION {[x : {<< >>, IdentityProfile(VertexCount(L))},
          samples : SeqsUpTo(QualitySamples(L), MaxSamples),
          pairs : {L},
          score : {1}] : L \in QualityLayouts}

\* ProcessData(device, move, shots, sim), the files of the device given
ProcessCalls == UNION {[device : {d}, corpus : DeviceCorpora(d)] : d \in Devices}

InitCorpus ==
  /\ GameIdle
  /\ MatchIdle
  /\ MetropolisIdle
  /\ \/ /\ f_name = "CalculateQuality"
        /\ f_args \in QualityCalls
     \/ /\ f_name = "ProcessData"
        /\ f_args \in ProcessCalls
  /\ f_result = << >>
  /\ f_pc = "call"

\* what a call of a function of the analysis leaves alone
CallFrame ==
  /\ UNCHANGED << f_name, f_args >>
  /\ UNCHANGED << gameVars, matchVars >>

\* lines 799-830
CallCalculateQuality ==
  /\ f_pc = "call"
  /\ f_name = "CalculateQuality"
  /\ LET error == QualityError(f_args.x, f_args.samples, f_args.pairs, f_args.score)
     IN  IF error # "none"
         THEN /\ f_result' = error
              /\ f_pc' = "raised"
         ELSE /\ f_result' \in CalculateQuality(f_args.x, f_args.samples, f_args.pairs, f_args.score)
              /\ f_pc' = "returned"
  /\ UNCHANGED << k_score, k_cleaner, k_x, k_quality, k_best_x, k_bestQuality, k_rep, k_step >>
  /\ CallFrame

\* lines 912-975
CallProcessData ==
  /\ f_pc = "call"
  /\ f_name = "ProcessData"
  /\ LET L == Layout(f_args.device)
         error == ProcessError(f_args.corpus, L.pairs)
     IN  IF error # "none"
         THEN /\ f_result' = error
              /\ f_pc' = "raised"
         ELSE /\ f_result' \in ProcessData(f_args.corpus, L.num, L.pairs)
              /\ f_pc' = "returned"
  /\ UNCHANGED << k_score, k_cleaner, k_x, k_quality, k_best_x, k_bestQuality, k_rep, k_step >>
  /\ CallFrame

NextCorpus ==
  \/ CallCalculateQuality
  \/ CallProcessData

SpecCorpus == InitCorpus /\ [][NextCorpus]_vars

(***************************************************************************)
(* CreateCleaningProfile and Metropolis, called on the files of a device   *)
(***************************************************************************)
\* CreateCleaningProfile(device, move, shots, sim), the files of the device given
ProfileCalls == [device : {"ibmqx"}, corpus : ProfileCorpora("ibmqx")]

InitProfile ==
  /\ GameIdle
  /\ MatchIdle
  /\ MetropolisIdle
  /\ f_name = "CreateCleaningProfile"
  /\ f_args \in ProfileCalls
  /\ f_result = << >>
  /\ f_pc = "call"

\* maxScore = len( eval(oneProbSamples[0]) )
ProfileMaxScore == Len(f_args.corpus[1].oneProbs)

\* lines 883-901: the files are read and the loop over the rounds entered
CallCreateCleaningProfile ==
  /\ f_pc = "call"
  /\ f_name = "CreateCleaningProfile"
  /\ IF f_args.corpus = << >>
     THEN /\ f_result' = "IndexError"
          /\ f_pc' = "raised"
          /\ UNCHANGED k_score
     ELSE /\ f_result' = (IF ProfileMaxScore = 0 THEN << >> ELSE f_result)
          /\ f_pc' = (IF ProfileMaxScore = 0 THEN "returned" ELSE "metropolis")
          /\ k_score' = 1
  /\ UNCHANGED << k_cleaner, k_x, k_quality, k_best_x, k_bestQuality, k_rep, k_step >>
  /\ CallFrame

\* lines 902-904 and 845-847: Metropolis is called on x = [1,0]*num
MetropolisBegin ==
  /\ f_pc = "metropolis"
  /\ LET L == Layout(f_args.device)
         x == IdentityProfile(L.num)
         error == QualityError(x, f_args.corpus, L.pairs, k_score)
     IN  IF error # "none"
         THEN /\ f_result' = error
              /\ f_pc' = "raised"
              /\ UNCHANGED << k_x, k_best_x, k_bestQuality >>
         ELSE /\ k_x' = x
              /\ k_best_x' = x
              /\ k_bestQuality' \in {QualityPair(q) : q \in CalculateQuality(x, f_args.corpus, L.pairs, k_score)}
              /\ f_pc' = "rep"
              /\ UNCHANGED f_result
  /\ k_rep' = 0
  /\ k_step' = 0
  /\ k_quality' = << >>
  /\ UNCHANGED << k_score, k_cleaner >>
  /\ CallFrame

\* lines 849-854: a repetition starts from the best point
MetropolisRepeat ==
  /\ f_pc = "rep"
  /\ k_rep < Repetitions
  /\ k_x' = k_best_x
  /\ k_quality' = k_bestQuality
  /\ k_step' = 0
  /\ f_pc' = (IF Steps = 0 THEN "rep" ELSE "step")
  /\ k_rep' = (IF Steps = 0 THEN k_rep + 1 ELSE k_rep)
  /\ UNCHANGED << f_result, k_score, k_cleaner, k_best_x, k_bestQuality >>
  /\ CallFrame

\* lines 856-878: one step of the search; the last step of a repetition ends it
MetropolisStep ==
  /\ f_pc = "step"
  /\ k_step < Steps
  /\ \E n \in 0..(2 * Layout(f_args.device).num - 1), random_delta \in RandomDeltas :
       LET L == Layout(f_args.device)
           x == Moved(k_x, n, random_delta)
           error == QualityError(x, f_args.corpus, L.pairs, k_score)
       IN  IF error # "none"
           THEN /\ f_result' = error
                /\ f_pc' = "raised"
                /\ k_x' = x
                /\ UNCHANGED << k_quality, k_best_x, k_bestQuality, k_rep, k_step >>
           ELSE \E proposed \in CalculateQuality(x, f_args.corpus, L.pairs, k_score) :
                  LET proposedQuality == QualityPair(proposed)
                  IN  \E accept \in Accepts(Diff(proposedQuality, k_quality)) :
                        LET quality == IF accept THEN proposedQuality ELSE k_quality
                            after == IF accept THEN x ELSE k_x
                            better == BetterThanBest(quality, k_bestQuality)
                        IN  /\ k_x' = after
                            /\ k_quality' = quality
                            /\ k_best_x' = (IF better THEN after ELSE k_best_x)
                            /\ k_bestQuality' = (IF better THEN quality ELSE k_bestQuality)
                            /\ k_step' = k_step + 1
                            /\ k_rep' = (IF k_step + 1 = Steps THEN k_rep + 1 ELSE k_rep)
                            /\ f_pc' = (IF k_step + 1 = Steps THEN "rep" ELSE "step")
                            /\ UNCHANGED f_result
  /\ UNCHANGED << k_score, k_cleaner >>
  /\ CallFrame

\* lines 880, 904 and 901: best_x is returned and appended to cleaner, the
\* variables of Metropolis are gone; after the last round cleaner is written to
\* the file (lines 906-909)
MetropolisReturn ==
  /\ f_pc = "rep"
  /\ k_rep = Repetitions
  /\ k_cleaner' = Append(k_cleaner, k_best_x)
  /\ IF k_score >= ProfileMaxScore
     THEN /\ f_result' = k_cleaner'
          /\ f_pc' = "returned"
          /\ UNCHANGED k_score
     ELSE /\ k_score' = k_score + 1
          /\ f_pc' = "metropolis"
          /\ UNCHANGED f_result
  /\ k_x' = << >>
  /\ k_quality' = << >>
  /\ k_best_x' = << >>
  /\ k_bestQuality' = << >>
  /\ k_rep' = 0
  /\ k_step' = 0
  /\ CallFrame

NextProfile ==
  \/ CallCreateCleaningProfile
  \/ MetropolisBegin
  \/ MetropolisRepeat
  \/ MetropolisStep
  \/ MetropolisReturn

SpecProfile == InitProfile /\ [][NextProfile]_vars

(***************************************************************************)
(* The numeric functions, each called alone                                *)
(***************************************************************************)
\* the probabilities handed to calculateFrac and calculateEntanglement, over
\* PDen: from -1 to 3, the value 2 that entangle's callers use as a mark and
\* the values just below 0 and just above 1 among them
NumericProbs == (0 - PDen)..(3 * PDen)

\* the fractions handed to calculateFracDifference, in twelfths: from -1 to 1
NumericFracs == (0 - FracDen)..FracDen

NumericCalls(name) ==
  IF name = "calculateFracDifference"
  THEN [frac1 : NumericFracs, frac2 : NumericFracs]
  ELSE [oneProb : NumericProbs]

InitNumeric ==
  /\ GameIdle
  /\ MatchIdle
  /\ MetropolisIdle
  /\ f_name \in {"calculateFrac", "calculateEntanglement", "calculateFracDifference"}
  /\ f_args \in NumericCalls(f_name)
  /\ f_result = << >>
  /\ f_pc = "call"

\* lines 371-377
CallCalculateFrac ==
  /\ f_pc = "call"
  /\ f_name = "calculateFrac"
  /\ IF FracDomain(f_args.oneProb)
     THEN /\ f_result' = calculateFrac(f_args.oneProb)
          /\ f_pc' = "returned"
     ELSE /\ f_result' = "ValueError"
          /\ f_pc' = "raised"
  /\ UNCHANGED << k_score, k_cleaner, k_x, k_quality, k_best_x, k_bestQuality, k_rep, k_step >>
  /\ CallFrame

\* lines 362-369
CallCalculateEntanglement ==
  /\ f_pc = "call"
  /\ f_name = "calculateEntanglement"
  /\ IF FracDomain(f_args.oneProb)
     THEN /\ f_result' = calculateEntanglement(f_args.oneProb)
          /\ f_pc' = "returned"
     ELSE /\ f_result' = "ValueError"
          /\ f_pc' = "raised"
  /\ UNCHANGED << k_score, k_cleaner, k_x, k_quality, k_best_x, k_bestQuality, k_rep, k_step >>
  /\ CallFrame

\* lines 468-472
CallCalculateFracDifference ==
  /\ f_pc = "call"
  /\ f_name = "calculateFracDifference"
  /\ f_result' = calculateFracDifference(f_args.frac1, f_args.frac2)
  /\ f_pc' = "returned"
  /\ UNCHANGED << k_score, k_cleaner, k_x, k_quality, k_best_x, k_bestQuality, k_rep, k_step >>
  /\ CallFrame

NextNumeric ==
  \/ CallCalculateFrac
  \/ CallCalculateEntanglement
  \/ CallCalculateFracDifference

SpecNumeric == InitNumeric /\ [][NextNumeric]_vars

(***************************************************************************)
(* Claims about getDisjointPairs (under SpecMatch)                         *)
(***************************************************************************)
\* the couples of qubits, as sets, joined by the names of the list
CouplesJoined(layout, names) == {Ends(layout, names[i]) : i \in 1..Len(names)}

\* the couples {v, match[v]} of the list match
CouplesMatched(match) == {{v - 1, match[v]} : v \in {u \in 1..Len(match) : match[u] # -1}}

HasFake(layout) == \E p \in DOMAIN layout : IsFake(p)

\* C2: the list returned by getDisjointPairs names no pair twice, and no qubit
\* is an end of two of the pairs it names.
C2_Disjoint ==
  m_pc = "returned" =>
    \A i, j \in 1..Len(m_result) :
      i # j => /\ m_result[i] # m_result[j]
               /\ Ends(m_pairs, m_result[i]) \cap Ends(m_pairs, m_result[j]) = {}

\* trial: C2 on the layouts where no two names join the same two qubits
C2_TrialSimple ==
  (\A p, q \in DOMAIN m_pairs : p # q => Ends(m_pairs, p) # Ends(m_pairs, q)) => C2_Disjoint

InRound == pc \in {"getResults", "sleep", "measure", "guess", "choose", "score", "deduce"}

\* C1: in round r the list gates has 2r-1 records from the puzzle on and 2r once
\* the guessed record is appended; conjugates has r-1 records until the round's
\* conjugation is appended and r after it; fresh or replayed.
C1_Lengths ==
  /\ InRound => Len(gates) = 2 * score - 1 /\ Len(conjugates) = score - 1
  /\ pc = "conjugate" => Len(gates) = 2 * score /\ Len(conjugates) = score - 1
  /\ pc = "endRound" => Len(gates) = 2 * score /\ Len(conjugates) = score

\* trial: C1 holds of every fresh game
C1_TrialFresh == dataNeeded => C1_Lengths

\* C5: an error of the configuration raised by the backend call is fatal: after
\* it getResults neither sleeps nor tries again.
C5_ConfigurationFatal == failure = "configuration" => pc \notin {"sleep", "getResults"}

\* C6: the game ends exactly when the round counter meets maxScore or the player
\* asks to restart: with move C, R or B and maxScore >= 1 it plays maxScore
\* rounds and returns; a restart ends the game with the round it is asked in.
C6_Terminal ==
  /\ pc = "done" => score >= maxScore \/ restart
  /\ (pc = "loop" /\ score >= 1) => score < maxScore /\ ~restart
  /\ (move # "M" /\ maxScore >= 1) =>
       /\ pc # "raised"
       /\ pc = "done" => score = maxScore /\ Len(totalFuzz) = maxScore
  /\ restart => move = "M" /\ pc \in {"score", "deduce", "conjugate", "endRound", "done"}

\* trial: C6 holds of every fresh game
C6_TrialFresh == dataNeeded => C6_Terminal

\* C10: the record appended for the guess has the guessed pairs as its keys, and
\* for the guessed pair (a,b) the value -calculateFrac((oneProb[a]+oneProb[b])/2),
\* oneProb being the list of the round as entangle (or the recording) gave it.
C10_GuessedGates ==
  pc = "conjugate" =>
    LET guessedGates == gates[Len(gates)]
    IN  /\ DOMAIN guessedGates = SeqToSet(guessedPairs)
        /\ oneProb = oneProbs[Len(oneProbs)]
        /\ \A q \in 1..Len(oneProb) : oneProb[q] >= 0 /\ oneProb[q] <= PDen
        /\ \A p \in DOMAIN guessedGates :
             guessedGates[p] + calculateFrac((oneProb[pairs[p][1] + 1] + oneProb[pairs[p][2] + 1]) \div 2) = 0

\* C10, witness: a manual round; the chosen pair is grey on the display copy and
\* its gate is deduced from the untouched oneProb
C10_Witness ==
  /\ pc = "conjugate"
  /\ move = "M"
  /\ guessedPairs = << "B" >>
  /\ displayedOneProb # oneProb
  /\ gates[Len(gates)]["B"] < 0

(***************************************************************************)
(* Claims about getResults and entangle                                    *)
(***************************************************************************)
\* C4: getResults tries a bounded number of times: a call of it ends, with the
\* results (entangle goes on to measure) or with a fatal error, and does not
\* try for ever.
C4_BoundedRetries == (pc = "getResults") ~> (pc \in {"measure", "raised"})

\* entangle has built the script and is in getResults
InGetResults == pc \in {"getResults", "sleep", "measure"}

\* the pairs of the two records of the past round r (counted from 1)
RoundUnion(r) == DOMAIN gates[2 * r - 1] \cup DOMAIN gates[2 * r]

RECURSIVE BlockStart(_)
\* the number of operations before those of round r, each past round having
\* two conjugations of every qubit and one gate per pair of RoundUnion
BlockStart(r) ==
  IF r <= 1 THEN 0
  ELSE BlockStart(r - 1) + 2 * num + Cardinality(RoundUnion(r - 1))

FracIn(g, p) == IF p \in DOMAIN g THEN g[p] ELSE 0

\* C8: for every past round and every pair of the union of its two records the
\* script has exactly one XX gate, its fraction the sum of the fractions the
\* two records have for the pair (the one fraction when only one record has
\* it); the script has no other XX gate but those of the current puzzle.
C8_OneGatePerPair ==
  InGetResults =>
    /\ \A r \in 1..(score - 1) :
         LET o == BlockStart(r) + num
             u == Cardinality(RoundUnion(r))
         IN  \A p \in RoundUnion(r) :
               /\ Cardinality({i \in 1..u : script[o + i].qubit = pairs[p]}) = 1
               /\ \A i \in 1..u :
                    script[o + i].qubit = pairs[p] =>
                      script[o + i].frac = FracIn(gates[2 * r - 1], p) + FracIn(gates[2 * r], p)
    /\ Cardinality({i \in 1..Len(script) : script[i].gate = "XX"})
         = BlockStart(score) - 2 * num * (score - 1) + Cardinality(DOMAIN gates[2 * score - 1])

\* C8, witness: the pair A was the puzzle of round 1 and was guessed with a
\* fraction that is not 0, so that round 2 applies the two as one gate
C8_Witness ==
  /\ pc = "getResults"
  /\ score = 2
  /\ "A" \in DOMAIN gates[1] \cap DOMAIN gates[2]
  /\ gates[2]["A"] < 0
  /\ script[num + 1] = [gate |-> "XX", qubit |-> pairs["A"], frac |-> gates[1]["A"] + gates[2]["A"]]

QualityReturned == f_name = "CalculateQuality" /\ f_pc = "returned"

\* the true matching of the sample s: the keys of the first record of the round
TrueMatching(s) == DOMAIN f_args.samples[s].gates[2 * f_args.score - 1]

\* the matching guessed for the sample s
GuessedMatching(s) == SeqToSet(f_result.guessedPairs[s])

\* C11: the term of every sample is |guessed /\ true| / |true|, the true matching
\* being the keys of the first record of the round; fractionCorrect, the mean of
\* the terms, is in [0,1], is 1 when the guessed matching is the true one in
\* every sample and 0 when the two are disjoint in every sample.
C11_FractionCorrect ==
  QualityReturned =>
    LET n == Len(f_args.samples)
        fc == f_result.fractionCorrect
    IN  /\ \A s \in 1..n :
             f_result.terms[s] * Cardinality(TrueMatching(s))
               = Cardinality(GuessedMatching(s) \cap TrueMatching(s)) * QualityDen
        /\ fc.n = n
        /\ fc.sum = SumOver(f_result.terms, 1..n)
        /\ fc.sum >= 0
        /\ fc.sum <= QualityDen * fc.n
        /\ (\A s \in 1..n : GuessedMatching(s) = TrueMatching(s)) => fc.sum = QualityDen * fc.n
        /\ (\A s \in 1..n : GuessedMatching(s) \cap TrueMatching(s) = {}) => fc.sum = 0

\* C11, witness: two samples, one guessed half right and one guessed right, the
\* fraction being 3/4
C11_Witness ==
  /\ QualityReturned
  /\ Len(f_args.samples) = 2
  /\ Cardinality(GuessedMatching(1) \cap TrueMatching(1)) = 1
  /\ Cardinality(TrueMatching(1)) = 2
  /\ GuessedMatching(2) = TrueMatching(2)
  /\ 4 * f_result.fractionCorrect.sum = 3 * QualityDen * f_result.fractionCorrect.n

(***************************************************************************)
(* More claims about runGame (under Spec)                                  *)
(***************************************************************************)
\* the list after is the list before, or the list before and one record more
Appended(before, after) ==
  /\ Len(after) \in {Len(before), Len(before) + 1}
  /\ \A i \in 1..Len(before) : after[i] = before[i]

\* C17: in a game every step leaves the records of gates, conjugates,
\* totalFuzz and oneProbs as they are and adds at most one record at the end
\* of each list (the step that loads the recorded game of a replay fills the
\* lists, which are empty before it).
C17_AppendOnly ==
  [][IF pc = "call"
     THEN gates = << >> /\ conjugates = << >> /\ totalFuzz = << >> /\ oneProbs = << >>
     ELSE /\ Appended(gates, gates')
          /\ Appended(conjugates, conjugates')
          /\ Appended(totalFuzz, totalFuzz')
          /\ Appended(oneProbs, oneProbs')]_vars

\* C17, witness: the second round of a fresh game is over, every list has
\* the records of two rounds
C17_Witness ==
  /\ pc = "endRound"
  /\ dataNeeded
  /\ score = 2
  /\ Len(gates) = 4
  /\ Len(conjugates) = 2
  /\ Len(totalFuzz) = 2
  /\ Len(oneProbs) = 2

\* C21: a fresh game plays no round once score has met maxScore: with
\* maxScore <= 0 no puzzle is made and the backend is not called, and the four
\* lists that runGame returns are empty.
C21_NoRoundPastMax ==
  dataNeeded =>
    /\ score <= Max(maxScore, 0)
    /\ (maxScore <= 0 /\ pc # "call") =>
         /\ pc \in {"loop", "done"}
         /\ gates = << >>
         /\ conjugates = << >>
         /\ totalFuzz = << >>
         /\ oneProbs = << >>

\* trial: C21 for the fresh games asked to play a round or more
C21_TrialPositive ==
  maxScore >= 1 => C21_NoRoundPastMax

\* the recorded game that the replay loaded
LoadedGame ==
  Corpus(device)[CHOOSE g \in 1..Len(Corpus(device)) :
                   Corpus(device)[g].oneProbs = originalOneProbs]

\* a replayed round has read its puzzle
ReplayedRound ==
  ~dataNeeded /\ pc \in {"guess", "choose", "score", "deduce", "conjugate", "endRound"}

\* C22: in a replay the oneProb and the true matching of round r are those
\* recorded for round r of the game loaded, never a record that the replay
\* appended, and totalFuzz and oneProbs have one entry for each round played.
C22_ReplayReadsRecorded ==
  /\ ReplayedRound =>
       /\ score <= Len(LoadedGame.oneProbs)
       /\ oneProb = LoadedGame.oneProbs[score]
       /\ matchingPairs = KeyList(LoadedGame.gates[2 * score - 1])
  /\ (~dataNeeded /\ pc \in {"deduce", "conjugate", "endRound", "done"}) =>
       /\ Len(totalFuzz) = score
       /\ Len(oneProbs) = score

\* trial: the rounds within the recording read the recorded oneProb and
\* matching, and totalFuzz has one entry for each round played
C22_TrialWithinRecording ==
  /\ (ReplayedRound /\ score <= Len(LoadedGame.oneProbs)) =>
       /\ oneProb = LoadedGame.oneProbs[score]
       /\ matchingPairs = KeyList(LoadedGame.gates[2 * score - 1])
  /\ (~dataNeeded /\ pc \in {"deduce", "conjugate", "endRound", "done"}) =>
       /\ Len(totalFuzz) = score
       /\ Len(oneProbs) = Len(LoadedGame.oneProbs) + score

\* trial: no round reads past the recording
C22_TrialNoOwnRecord ==
  ReplayedRound => score <= Len(LoadedGame.oneProbs)

(***************************************************************************)
(* Claims about the manual guess (under SpecManual)                        *)
(***************************************************************************)
\* C20: the pairs guessed in a round and recorded in gates are a matching: no
\* qubit is an end of two of them and none of them is a fake pair, whatever
\* the player types in manual mode.
C20_GuessIsMatching ==
  pc \in {"conjugate", "endRound"} =>
    LET recorded == DOMAIN gates[Len(gates)]
    IN  /\ recorded = SeqToSet(guessedPairs)
        /\ IsMatching(pairs, recorded)
        /\ \A p \in recorded : ~IsFake(p)

(***************************************************************************)
(* More claims about getDisjointPairs (under SpecMatch)                    *)
(***************************************************************************)
\* the layout has no pair, or fake pairs only
NoValidPair(layout) == \A p \in DOMAIN layout : IsFake(p)

\* C14: on a layout with no pair, or with fake pairs only, getDisjointPairs
\* raises nothing and returns the empty list.
C14_NoValidPairs ==
  (m_pc # "call" /\ NoValidPair(m_pairs)) => (m_pc = "returned" /\ m_result = << >>)

\* C14, witness: a fake pair alone, matched on the probabilities supplied,
\* and nothing returned
C14_Witness ==
  /\ m_pc = "returned"
  /\ DOMAIN m_pairs = {"fake1"}
  /\ m_oneProb # << >>
  /\ m_match # << >>
  /\ m_result = << >>

(***************************************************************************)
(* Claims about the analysis of a corpus (under SpecCorpus)                *)
(***************************************************************************)
\* the samples that the function called is given
SamplesGiven == IF f_name = "CalculateQuality" THEN f_args.samples ELSE f_args.corpus

\* C15: called on a corpus with no sample, CalculateQuality and ProcessData
\* (and CreateCleaningProfile) end with the condition EmptyCorpus: not with a
\* division by zero, not with an index error, not with a result.
C15_EmptyCorpus ==
  (f_pc # "call" /\ SamplesGiven = << >>) => (f_pc = "raised" /\ f_result = "EmptyCorpus")

\* the entanglements of the active qubits of round r of sample s, added up
ActiveEntanglement(s, r) ==
  LET roundOneProbs == f_args.corpus[s].oneProbs[r]
      active == {q \in 1..Len(roundOneProbs) : (q - 1) \in Layout(f_args.device).pos}
  IN  SumOver([q \in active |-> calculateEntanglement(roundOneProbs[q])], active)

\* C19: the mean entanglement of a round that ProcessData computes is the
\* average of calculateEntanglement over the active qubits: the sum over the
\* active qubits of the samples, divided by their number (and by the number of
\* samples).
C19_MeanEntanglement ==
  (f_name = "ProcessData" /\ f_pc = "returned") =>
    \A r \in 1..Len(f_result.entangleAv) :
      LET mean == f_result.entangleAv[r].mean
          samples == Len(f_args.corpus)
          active == Cardinality(Layout(f_args.device).pos)
      IN  /\ mean.n = samples
          /\ mean.sum * (FracDen * active)
               = SumOver([s \in 1..samples |-> ActiveEntanglement(s, r)], 1..samples)
                   * f_result.entangleDen

\* trial: C19 on the device whose qubits are all active
C19_TrialAllActive ==
  (f_name = "ProcessData" /\ f_args.device = "ibmqx") => C19_MeanEntanglement

\* getDisjointPairs has returned on a oneProb that was supplied
ReturnedOnOneProb == m_pc = "returned" /\ m_oneProb # << >>

\* the weight of each pair is the negated difference of the fractions of its
\* two qubits
WeightsAsClaimed ==
  \A p \in DOMAIN m_pairs :
    m_weight[p] = 0 - calculateFracDifference(calculateFrac(m_oneProb[m_pairs[p][1] + 1]),
                                              calculateFrac(m_oneProb[m_pairs[p][2] + 1]))

\* the total weight of the matching computed: for each couple matched, the
\* weight of a pair that joins it
MatchedWeight ==
  LET couples == CouplesMatched(m_match)
  IN  SumOver([c \in couples |-> m_weight[CHOOSE p \in DOMAIN m_pairs : Ends(m_pairs, p) = c]],
              couples)

Searching == f_pc \in {"rep", "step"}

\* C12: the combined objective fractionCorrect + 2*closenessToIdeal of the best
\* point never decreases from one step of Metropolis to the next, within a
\* repetition and across repetitions, and the best point has the greatest
\* objective of the points accepted, the last one accepted included.
C12_BestObjective ==
  [][(Searching /\ Searching') =>
       /\ Objective(k_bestQuality') >= Objective(k_bestQuality)
       /\ k_quality' # << >> => Objective(k_bestQuality') >= Objective(k_quality')]_vars

\* trial: the first half of C12 alone
C12_TrialNonDecreasing ==
  [][(Searching /\ Searching') => Objective(k_bestQuality') >= Objective(k_bestQuality)]_vars

(***************************************************************************)
(* Claims about the numeric functions (under SpecNumeric)                  *)
(***************************************************************************)
\* p brought into [0, 1]
Clamped(p) == Max(0, Min(PDen, p))

\* C13: calculateFrac and calculateEntanglement raise for no probability, below
\* 0 and above 1 included: they return the value of the probability brought
\* into [0, 1].
C13_NeverFail ==
  /\ f_name = "calculateFrac" /\ f_pc # "call" =>
       f_pc = "returned" /\ f_result = calculateFrac(Clamped(f_args.oneProb))
  /\ f_name = "calculateEntanglement" /\ f_pc # "call" =>
       f_pc = "returned" /\ f_result = calculateEntanglement(Clamped(f_args.oneProb))

\* trial: C13 for the probabilities of [0, 1]
C13_TrialInDomain ==
  (f_name \in {"calculateFrac", "calculateEntanglement"} /\ FracDomain(f_args.oneProb))
    => C13_NeverFail

\* the call of calculateFracDifference has returned
DifferenceReturned == f_name = "calculateFracDifference" /\ f_pc = "returned"

\* C16 as claimed: for all fractions frac1, frac2 of [-1, 1] the result of
\* calculateFracDifference is the same with the arguments exchanged and is in
\* [0, 1/2].
C16_SymmetricBoundedAll ==
  DifferenceReturned =>
    /\ f_result = calculateFracDifference(f_args.frac2, f_args.frac1)
    /\ f_result >= 0
    /\ 2 * f_result <= FracDen

\* C16 as amended: the result is the same with the arguments exchanged for all
\* fractions of [-1, 1]; it is in [0, 1/2] when the fractions are at most 1
\* apart, as any two of [0, 1] are, and negative when they are further apart.
C16_SymmetricBounded ==
  DifferenceReturned =>
    LET apart == Max(f_args.frac1, f_args.frac2) - Min(f_args.frac1, f_args.frac2)
    IN  /\ f_result = calculateFracDifference(f_args.frac2, f_args.frac1)
        /\ apart <= FracDen => (f_result >= 0 /\ 2 * f_result <= FracDen)
        /\ apart > FracDen => f_result < 0

\* C16, witness: fractions more than 1/2 and at most 1 apart, the second line
\* of the function at work
C16_Witness ==
  /\ DifferenceReturned
  /\ f_args.frac1 = 2
  /\ f_args.frac2 = 11
  /\ f_result = 3

=============================================================================
